---------------------------- MODULE Spec2Model ----------------------------
(***************************************************************************)
(* A model of skills/gmail/scripts/gmail_search.py: the credential         *)
(* lifecycle (scope file, token file, get_credentials and the commands     *)
(* that call it), the message codec (extract_body,                         *)
(* extract_attachment_info) and download_attachment.                       *)
(*                                                                         *)
(* Text is modelled as a sequence of one-character strings, so that        *)
(* strip(), split(','), re.match, Path.stem/.suffix and base64 decoding    *)
(* are computed the way the code computes them.                            *)
(***************************************************************************)
EXTENDS Integers, Sequences, FiniteSets, TLC

VARIABLES
    credentials_dir,     \* CREDENTIALS_DIR exists
    client_secrets_file, \* CLIENT_SECRETS_FILE exists
    scope_file,          \* content of SCOPE_FILE, or ABSENT
    token_file,          \* the handle pickled in TOKEN_FILE, or None
    issued,              \* number of handles the token endpoint has issued
    scope_change,        \* the last set_scope call not yet followed by
                         \* a run of get_credentials (history)
    cmd,                 \* the command of the last invocation
    args,                \* its arguments
    outcome,             \* "ok", "exit1" (sys.exit(1)) or "raised" (uncaught)
    err,                 \* what was reported or raised
    acq,                 \* the run of get_credentials inside the invocation
    mail_calls,          \* remote mail-service calls made by the invocation
    msg,                 \* codec: msg["payload"], the fetched part tree
    details,             \* codec: the result of get_message_details
    out_files,           \* download: path -> content of the output directory
    dl,                  \* download: the last download_attachment call
    original,            \* reply: the message that messages.get returns
    context              \* reply: the result of get_message_for_reply

credVars == <<credentials_dir, client_secrets_file, scope_file, token_file,
              issued, scope_change, cmd, args, outcome, err, acq, mail_calls>>
codecVars == <<msg, details>>
dlVars == <<out_files, dl>>
replyVars == <<original, context>>
vars == <<credVars, codecVars, dlVars, replyVars>>

-----------------------------------------------------------------------------
(* Bounds of the model.                                                    *)

\* Handles the token endpoint issues in one behaviour.
MaxHandles == 3

\* Parts in a fetched message's part tree.
MaxParts == 4

\* Attachments written to the output directory in one behaviour.
MaxDownloads == 3

\* Replies to replies in one thread.
MaxReplies == 2

-----------------------------------------------------------------------------
(* Text helpers.                                                           *)

Lower == {"a","b","c","d","e","f","g","h","i","j","k","l","m",
          "n","o","p","q","r","s","t","u","v","w","x","y","z"}
Upper == {"A","B","C","D","E","F","G","H","I","J","K","L","M",
          "N","O","P","Q","R","S","T","U","V","W","X","Y","Z"}
Digit == {"0","1","2","3","4","5","6","7","8","9"}
Space == {" "}

\* s[i..j], empty when j < i.
Slice(s, i, j) == [k \in 1..(j - i + 1) |-> s[i + k - 1]]

\* str.strip(): whitespace removed at both ends.
strip(s) ==
    LET keep == {i \in 1..Len(s) : s[i] \notin Space}
    IN IF keep = {} THEN <<>>
       ELSE LET lo == CHOOSE i \in keep : \A j \in keep : i <= j
                hi == CHOOSE i \in keep : \A j \in keep : j <= i
            IN Slice(s, lo, hi)

\* sub in s
contains(s, sub) ==
    \E i \in 1..(Len(s) - Len(sub) + 1) : Slice(s, i, i + Len(sub) - 1) = sub

\* s.split(sep) for a one-character separator: the fields between separators.
RECURSIVE split(_, _)
split(s, sep) ==
    LET at == {i \in 1..Len(s) : s[i] = sep}
    IN IF at = {} THEN <<s>>
       ELSE LET i == CHOOSE k \in at : \A j \in at : k <= j
            IN <<Slice(s, 1, i - 1)>> \o split(Slice(s, i + 1, Len(s)), sep)

-----------------------------------------------------------------------------
(* Configuration: lines 28-45.                                             *)

ABSENT == "<absent>"

READONLY_URL == "https://www.googleapis.com/auth/gmail.readonly"
MODIFY_URL == "https://www.googleapis.com/auth/gmail.modify"
FULL_URL == "https://mail.google.com/"

SCOPES_MAP ==
    [s \in {"readonly", "modify", "full"} |->
        CASE s = "readonly" -> {READONLY_URL}
          [] s = "modify" -> {READONLY_URL, MODIFY_URL}
          [] s = "full" -> {FULL_URL}]

DEFAULT_SCOPE == "modify"

\* Optional[Credentials]: None, or a handle with the fields the code reads.
\* As the content of TOKEN_FILE: no file, or the pickled handle.
None == [some |-> FALSE, id |-> 0, scopes |-> {}, expired |-> FALSE,
         refresh_token |-> FALSE, malformed |-> FALSE]

Credentials(id, scopes, expired, refresh_token) ==
    [some |-> TRUE, id |-> id, scopes |-> scopes, expired |-> expired,
     refresh_token |-> refresh_token, malformed |-> FALSE]

\* A TOKEN_FILE that exists and that pickle.load cannot deserialize.
Malformed == [some |-> TRUE, id |-> 0, scopes |-> {}, expired |-> TRUE,
              refresh_token |-> FALSE, malformed |-> TRUE]

\* creds.valid: an access token that has not expired.
valid(creds) == creds.some /\ ~creds.malformed /\ ~creds.expired

\* What TOKEN_FILE holds, as get_credentials tells handles apart.
token_state(creds) ==
    CASE ~creds.some -> "none"
      [] creds.malformed -> "malformed"
      [] valid(creds) -> "valid"
      [] creds.refresh_token -> "refreshable"
      [] OTHER -> "expired"

get_current_scope_ignores_file == DEFAULT_SCOPE

get_current_scope ==
    IF scope_file # ABSENT THEN scope_file ELSE DEFAULT_SCOPE


\* What set_scope leaves behind: the exception it raised ("" when it returned)
\* and the two files.  SCOPE_FILE.write_text does not create the directory:
\* it raises FileNotFoundError when CREDENTIALS_DIR does not exist.
set_scope_token_kept(scope) ==
    IF scope \notin DOMAIN SCOPES_MAP
    THEN [raised |-> "ValueError", scope_file |-> scope_file,
          token_file |-> token_file]
    ELSE IF ~credentials_dir
    THEN [raised |-> "FileNotFoundError", scope_file |-> scope_file,
          token_file |-> token_file]
    ELSE [raised |-> "", scope_file |-> scope, token_file |-> token_file]

set_scope_unlinks_first(scope) ==
    IF scope \notin DOMAIN SCOPES_MAP
    THEN [raised |-> "ValueError", scope_file |-> scope_file,
          token_file |-> None]
    ELSE IF ~credentials_dir
    THEN [raised |-> "FileNotFoundError", scope_file |-> scope_file,
          token_file |-> token_file]
    ELSE [raised |-> "", scope_file |-> scope, token_file |-> None]

set_scope(scope) ==
    IF scope \notin DOMAIN SCOPES_MAP
    THEN [raised |-> "ValueError", scope_file |-> scope_file,
          token_file |-> token_file]
    ELSE IF ~credentials_dir
    THEN [raised |-> "FileNotFoundError", scope_file |-> scope_file,
          token_file |-> token_file]
    ELSE [raised |-> "", scope_file |-> scope, token_file |-> None]

-----------------------------------------------------------------------------
(* get_credentials: lines 65-160.                                          *)

CODE_MARKER == <<"c","o","d","e","=">>

\* What the environment decides during one run of get_credentials:
\*   exchange_ok    the exchange with the token endpoint that the run
\*                  performs (creds.refresh, flow.fetch_token or
\*                  flow.run_local_server) succeeds; else it raises
\*   grants_refresh the handle a full authorization issues carries a
\*                  refresh token
\*   eof            input() meets end-of-input and raises EOFError
\*   url            the line the operator pastes
NoChange == [scope |-> "", returned |-> FALSE, token |-> "none"]

NoAcq ==
    [ran |-> FALSE, manual |-> FALSE, path |-> "none", requested |-> {},
     configured |-> FALSE, loaded |-> None, result |-> None, raised |-> "",
     asked |-> FALSE, eof |-> FALSE, url |-> <<>>, after |-> NoChange,
     token_file |-> None, credentials_dir |-> FALSE, issued |-> 0]

\* lines 156-160: mkdir, pickle.dump(creds), return creds.
return_unsaved(run, creds) ==
    [run EXCEPT !.result = creds, !.issued = creds.id]

persist(run, creds) ==
    [run EXCEPT !.result = creds, !.token_file = creds,
                !.credentials_dir = TRUE, !.issued = creds.id]

\* line 77 when creds.refresh(Request()) raises: nothing catches it, and
\* the token file stays as it was.
refresh_raises_and_unlinks(run) ==
    [run EXCEPT !.raised = "RefreshError", !.token_file = None]

refresh_raises(run) == [run EXCEPT !.raised = "RefreshError"]

\* lines 72-73 when pickle.load(token) raises: nothing catches it.
load_raises(run) == [run EXCEPT !.raised = "UnpicklingError"]

\* lines 125-151: the operator's line, checked and exchanged for `fresh`.
\* input() raises EOFError at end-of-input; only fetch_token is in a try.
manual_flow(run, env, fresh) ==
    LET asked == [run EXCEPT !.asked = TRUE, !.eof = env.eof,
                             !.url = IF env.eof THEN <<>> ELSE env.url]
        redirect_url == strip(env.url)
    IN IF env.eof THEN [asked EXCEPT !.raised = "EOFError"]
       ELSE IF redirect_url = <<>> THEN asked
       ELSE IF ~contains(redirect_url, CODE_MARKER) THEN asked
       ELSE IF env.exchange_ok THEN persist(asked, fresh)
       ELSE asked

\* The run of get_credentials(manual) when TOKEN_FILE holds `token` (None: no
\* file) and the scope file is as in the current state: the path taken
\* ("load", "loaded", "refresh", "notconfigured", "full"), the handle returned, the
\* exception raised, and the persisted state it leaves.  `after` is the
\* set_scope call, if any, since which get_credentials had not run.
get_credentials(manual, env, token) ==
    LET scope == get_current_scope
        scopes == SCOPES_MAP[scope]
        creds == token
        run == [NoAcq EXCEPT !.ran = TRUE, !.manual = manual,
                             !.requested = scopes, !.loaded = creds,
                             !.configured = client_secrets_file,
                             !.after = scope_change,
                             !.token_file = token,
                             !.credentials_dir = credentials_dir,
                             !.issued = issued]
        refreshed == [creds EXCEPT !.expired = FALSE, !.id = issued + 1]
        fresh == Credentials(issued + 1, scopes, FALSE, env.grants_refresh)
        full == [run EXCEPT !.path = "full"]
    IN  IF creds.malformed THEN load_raises([run EXCEPT !.path = "load"])
        ELSE IF valid(creds)
        THEN [run EXCEPT !.path = "loaded", !.result = creds]
        ELSE IF creds.some /\ creds.expired /\ creds.refresh_token
        THEN IF env.exchange_ok
             THEN persist([run EXCEPT !.path = "refresh"], refreshed)
             ELSE refresh_raises([run EXCEPT !.path = "refresh"])
        ELSE IF ~client_secrets_file
        THEN [run EXCEPT !.path = "notconfigured"]
        ELSE IF manual THEN manual_flow(full, env, fresh)
        ELSE IF env.exchange_ok THEN persist(full, fresh)
        ELSE [full EXCEPT !.raised = "FlowError"]

-----------------------------------------------------------------------------
(* validate_email: lines 568-571.                                          *)

LocalChars == Lower \cup Upper \cup Digit \cup {".", "_", "%", "+", "-"}
DomainChars == Lower \cup Upper \cup Digit \cup {".", "-"}
Alpha == Lower \cup Upper

\* re.match(r'^[a-zA-Z0-9._%+-]+@[a-zA-Z0-9.-]+\.[a-zA-Z]{2,}$', email.strip())
validate_email(email) ==
    LET s == strip(email)
    IN \E a \in 2..Len(s) :
         /\ s[a] = "@"
         /\ \A i \in 1..(a - 1) : s[i] \in LocalChars
         /\ \E d \in (a + 2)..(Len(s) - 2) :
              /\ s[d] = "."
              /\ \A i \in (a + 1)..(d - 1) : s[i] \in DomainChars
              /\ \A i \in (d + 1)..Len(s) : s[i] \in Alpha

-----------------------------------------------------------------------------
(* The remote mail service and the commands' bodies after get_credentials. *)

\* The calls of `calls` made when call number fail_at raises HttpError
\* (0: none fails), and how the command ends.
remote(calls, fail_at) ==
    IF fail_at = 0 \/ fail_at > Len(calls)
    THEN [outcome |-> "ok", err |-> "", mail_calls |-> calls]
    ELSE [outcome |-> "exit1", err |-> "HttpError",
          mail_calls |-> SubSeq(calls, 1, fail_at)]

rejected(why) == [outcome |-> "exit1", err |-> why, mail_calls |-> <<>>]

\* lines 693-754 (cmd_send) and 764-826 (cmd_draft): the same checks, then
\* one remote call.
compose_checks_to_only(to, cc, bcc, subject, body, call, fail_at) ==
    IF to = <<>> THEN rejected("--to is required")
    ELSE IF ~validate_email(to) THEN rejected("Invalid email address")
    ELSE IF subject = <<>> THEN rejected("--subject is required")
    ELSE IF body = <<>> THEN rejected("--body is required")
    ELSE remote(<<call>>, fail_at)

compose(to, cc, bcc, subject, body, call, fail_at) ==
    IF to = <<>> THEN rejected("--to is required")
    ELSE IF ~validate_email(to) THEN rejected("Invalid email address")
    ELSE IF cc # <<>> /\ \E i \in 1..Len(split(cc, ",")) :
                            ~validate_email(split(cc, ",")[i])
    THEN rejected("Invalid CC email address")
    ELSE IF bcc # <<>> /\ \E i \in 1..Len(split(bcc, ",")) :
                             ~validate_email(split(bcc, ",")[i])
    THEN rejected("Invalid BCC email address")
    ELSE IF subject = <<>> THEN rejected("--subject is required")
    ELSE IF body = <<>> THEN rejected("--body is required")
    ELSE remote(<<call>>, fail_at)

\* lines 653-657: re.search(r'<(.+?)>', original_from): the text between the
\* first "<" and the first ">" at least two places after it.
reply_to(original_from) ==
    LET lt == {i \in 1..Len(original_from) : original_from[i] = "<"}
    IN IF lt = {} THEN original_from
       ELSE LET i == CHOOSE k \in lt : \A j \in lt : k <= j
                gt == {j \in (i + 2)..Len(original_from) :
                          original_from[j] = ">"}
            IN IF gt = {} THEN original_from
               ELSE LET j == CHOOSE k \in gt : \A m \in gt : k <= m
                    IN Slice(original_from, i + 1, j - 1)

\* lines 836-875 (cmd_reply): the recipient comes from the original message
\* and goes to create_message unchecked.
reply(message_id, body, fail_at) ==
    IF message_id = <<>> THEN rejected("message_id is required")
    ELSE IF body = <<>> THEN rejected("--body is required")
    ELSE remote(<<"messages.get", "messages.send">>, fail_at)

-----------------------------------------------------------------------------
(* Inputs.                                                                 *)

URL_EMPTY == <<>>
URL_BLANK == <<" ">>
URL_NO_CODE == <<"h","/","?","s","=","1">>
URL_CODE == <<"h","/","?","c","o","d","e","=","4">>

\* One record per distinguishable environment: a failed exchange grants
\* nothing, and at end-of-input there is no line.
Envs ==
    {e \in [exchange_ok : BOOLEAN, grants_refresh : BOOLEAN, eof : BOOLEAN,
            url : {URL_EMPTY, URL_BLANK, URL_NO_CODE, URL_CODE}] :
        /\ e.grants_refresh => e.exchange_ok
        /\ e.eof => e.url = URL_EMPTY /\ ~e.exchange_ok
        /\ e.exchange_ok => e.url = URL_CODE}

\* The environments of a run that does not prompt the operator.
Quiet == {e \in Envs : ~e.eof /\ e.url = URL_CODE}

ScopeArgs == {"", "readonly", "modify", "full", "admin"}

ADDR_OK == <<"a","@","b",".","c","o">>
ADDR_PADDED == <<" ","a","@","b",".","c","o">>
ADDR_NO_AT == <<"b","a","d">>
ADDR_SHORT_TLD == <<"a","@","b",".","c">>
LIST_OK == ADDR_OK \o <<",","c","@","d",".","i","o">>
LIST_BAD == ADDR_OK \o <<",","b","a","d">>

ToArgs == {<<>>, ADDR_OK, ADDR_PADDED, ADDR_NO_AT, ADDR_SHORT_TLD}
CcArgs == {<<>>, LIST_OK, LIST_BAD}
BccArgs == {<<>>, ADDR_OK, ADDR_NO_AT}
TextArgs == {<<>>, <<"x">>}
FromHeaders ==
    { <<"A"," ","<">> \o ADDR_OK \o <<">">>, ADDR_OK,
      <<"A"," ","<","b","a","d",">">>, ADDR_NO_AT, <<>> }

NoArgs ==
    [scope |-> "", to |-> <<>>, cc |-> <<>>, bcc |-> <<>>,
     original_from |-> <<>>]

-----------------------------------------------------------------------------
(* One invocation of the tool: main() dispatching to a cmd_* function.     *)

\* A command that starts with `creds = get_credentials()` and exits with 1
\* when it returns None; `after` is what the rest of the command does.
authenticated(c, a, r, after) ==
    /\ r.issued <= MaxHandles
    /\ cmd' = c
    /\ args' = a
    /\ acq' = r
    /\ token_file' = r.token_file
    /\ credentials_dir' = r.credentials_dir
    /\ issued' = r.issued
    /\ scope_change' = NoChange
    /\ IF r.raised # ""
       THEN outcome' = "raised" /\ err' = r.raised /\ mail_calls' = <<>>
       ELSE IF ~r.result.some
       THEN /\ outcome' = "exit1"
            /\ err' = "Not authenticated"
            /\ mail_calls' = <<>>
       ELSE /\ outcome' = after.outcome
            /\ err' = after.err
            /\ mail_calls' = after.mail_calls
    /\ UNCHANGED <<client_secrets_file, scope_file>>

cmd_setup(env) ==
    LET r == IF client_secrets_file
             THEN get_credentials(FALSE, env, token_file)
             ELSE [NoAcq EXCEPT !.token_file = token_file, !.issued = issued]
    IN /\ r.issued <= MaxHandles
       /\ cmd' = "setup"
       /\ args' = NoArgs
       /\ acq' = [r EXCEPT !.credentials_dir = TRUE]
       /\ credentials_dir' = TRUE
       /\ token_file' = r.token_file
       /\ issued' = r.issued
       /\ scope_change' = IF r.ran THEN NoChange ELSE scope_change
       /\ mail_calls' = <<>>
       /\ IF r.raised # ""
          THEN outcome' = "raised" /\ err' = r.raised
          ELSE /\ outcome' = "ok"
               /\ err' = IF client_secrets_file THEN ""
                         ELSE "credentials.json not found"
       /\ UNCHANGED <<client_secrets_file, scope_file>>

cmd_auth(manual, env) ==
    IF ~client_secrets_file
    THEN /\ cmd' = "auth"
         /\ args' = NoArgs
         /\ acq' = NoAcq
         /\ outcome' = "exit1"
         /\ err' = "credentials.json not found"
         /\ mail_calls' = <<>>
         /\ UNCHANGED <<credentials_dir, client_secrets_file, scope_file,
                        token_file, issued, scope_change>>
    ELSE LET r == get_credentials(manual, env, None)
         IN /\ r.issued <= MaxHandles
            /\ cmd' = "auth"
            /\ args' = NoArgs
            /\ acq' = r
            /\ token_file' = r.token_file
            /\ credentials_dir' = r.credentials_dir
            /\ issued' = r.issued
            /\ scope_change' = NoChange
            /\ mail_calls' = <<>>
            /\ IF r.raised # ""
               THEN outcome' = "raised" /\ err' = r.raised
               ELSE IF valid(r.result)
               THEN outcome' = "ok" /\ err' = ""
               ELSE outcome' = "exit1" /\ err' = "Authentication failed"
            /\ UNCHANGED <<client_secrets_file, scope_file>>

cmd_scope(scope) ==
    /\ cmd' = "scope"
    /\ args' = [NoArgs EXCEPT !.scope = scope]
    /\ acq' = NoAcq
    /\ mail_calls' = <<>>
    /\ IF scope = ""
       THEN /\ outcome' = "ok"
            /\ err' = ""
            /\ UNCHANGED <<scope_file, token_file, scope_change>>
       ELSE LET r == set_scope(scope)
            IN /\ scope_file' = r.scope_file
               /\ token_file' = r.token_file
               /\ scope_change' =
                     IF scope \in DOMAIN SCOPES_MAP
                     THEN [scope |-> scope, returned |-> r.raised = "",
                           token |-> token_state(token_file)]
                     ELSE scope_change
               /\ outcome' = CASE r.raised = "" -> "ok"
                               [] r.raised = "ValueError" -> "exit1"
                               [] OTHER -> "raised"
               /\ err' = r.raised
    /\ UNCHANGED <<credentials_dir, client_secrets_file, issued>>

\* lines 458-499: messages.list, then messages.get for each of n hits.
cmd_search(env, n, fail_at) ==
    authenticated("search", NoArgs, get_credentials(FALSE, env, token_file),
        remote(<<"messages.list">> \o [i \in 1..n |-> "messages.get"],
               fail_at))

\* lines 543-565
cmd_labels(env, fail_at) ==
    authenticated("labels", NoArgs, get_credentials(FALSE, env, token_file),
        remote(<<"labels.list">>, fail_at))

\* lines 686-754
cmd_send(env, to, cc, bcc, subject, body, fail_at) ==
    authenticated("send", [NoArgs EXCEPT !.to = to, !.cc = cc, !.bcc = bcc],
        get_credentials(FALSE, env, token_file),
        compose(to, cc, bcc, subject, body, "messages.send", fail_at))

\* lines 757-826
cmd_draft(env, to, cc, bcc, subject, body, fail_at) ==
    authenticated("draft", [NoArgs EXCEPT !.to = to, !.cc = cc, !.bcc = bcc],
        get_credentials(FALSE, env, token_file),
        compose(to, cc, bcc, subject, body, "drafts.create", fail_at))

\* lines 829-875: args records the From header of the message that
\* message_id names and the recipient get_message_for_reply derives from it.
cmd_reply(env, message_id, body, original_from, fail_at) ==
    authenticated("reply",
        [NoArgs EXCEPT !.original_from = original_from,
                       !.to = reply_to(original_from)],
        get_credentials(FALSE, env, token_file),
        reply(message_id, body, fail_at))

-----------------------------------------------------------------------------
(* The environment of the tool.                                            *)

\* The operator saves credentials.json as cmd_setup instructs (line 380).
install_client_secrets ==
    /\ ~client_secrets_file
    /\ client_secrets_file' = TRUE
    /\ credentials_dir' = TRUE
    /\ UNCHANGED <<scope_file, token_file, issued, scope_change, cmd, args,
                   outcome, err, acq, mail_calls>>

\* Time passes and the persisted handle's access token expires
\* (creds.expired, read at line 76).
token_expires ==
    /\ valid(token_file)
    /\ token_file' = [token_file EXCEPT !.expired = TRUE]
    /\ UNCHANGED <<credentials_dir, client_secrets_file, scope_file, issued,
                   scope_change, cmd, args, outcome, err, acq, mail_calls>>

-----------------------------------------------------------------------------
(* The message codec: lines 245-285.                                       *)

\* A MessagePart: the fields of a part that the code reads.  data, filename
\* are text (empty: the key is absent or its value is empty), attachmentId
\* is "" when the body has none, and parts is empty exactly when the part
\* has no "parts" key (the mail service gives leaf parts no such key).
Part(mimeType, data, filename, attachmentId, size) ==
    [mimeType |-> mimeType, data |-> data, filename |-> filename,
     attachmentId |-> attachmentId, size |-> size, parts |-> <<>>]

B64_ALPHABET ==
    <<"A","B","C","D","E","F","G","H","I","J","K","L","M","N","O","P",
      "Q","R","S","T","U","V","W","X","Y","Z","a","b","c","d","e","f",
      "g","h","i","j","k","l","m","n","o","p","q","r","s","t","u","v",
      "w","x","y","z","0","1","2","3","4","5","6","7","8","9","-","_">>

\* The 6-bit values of the characters of data before its "=" padding.
sextets(data) ==
    LET n == Cardinality({i \in 1..Len(data) : data[i] # "="})
    IN [i \in 1..n |-> (CHOOSE v \in 1..64 : B64_ALPHABET[v] = data[i]) - 1]

\* base64.urlsafe_b64decode on well-padded data: 4 characters give 3 bytes,
\* a final group of 3 gives 2 and of 2 gives 1.
RECURSIVE octets(_)
octets(v) ==
    IF Len(v) < 2 THEN <<>>
    ELSE LET b1 == v[1] * 4 + v[2] \div 16
         IN IF Len(v) = 2 THEN <<b1>>
            ELSE LET b2 == (v[2] % 16) * 16 + v[3] \div 4
                 IN IF Len(v) = 3 THEN <<b1, b2>>
                    ELSE <<b1, b2, (v[3] % 4) * 64 + v[4]>>
                         \o octets(SubSeq(v, 5, Len(v)))

REPLACEMENT == 65533

\* bytes.decode("utf-8", errors="replace") to code points, for bytes below
\* 0xE0: ASCII, two-byte sequences, and U+FFFD for a byte that starts none.
RECURSIVE utf8_replace(_)
utf8_replace(b) ==
    IF b = <<>> THEN <<>>
    ELSE IF b[1] < 128 THEN <<b[1]>> \o utf8_replace(Tail(b))
    ELSE IF /\ b[1] >= 194 /\ b[1] <= 223
            /\ Len(b) >= 2 /\ b[2] >= 128 /\ b[2] <= 191
    THEN <<(b[1] - 192) * 64 + (b[2] - 128)>>
         \o utf8_replace(SubSeq(b, 3, Len(b)))
    ELSE <<REPLACEMENT>> \o utf8_replace(Tail(b))

decode(data) == utf8_replace(octets(sextets(data)))

RECURSIVE extract_body(_)
RECURSIVE extract_body_parts(_, _)

\* lines 251-261: the loop over payload["parts"], from part number i.
extract_body_parts(parts, i) ==
    IF i > Len(parts) THEN <<>>
    ELSE IF parts[i].mimeType = "text/plain" /\ parts[i].data # <<>>
    THEN decode(parts[i].data)
    ELSE IF parts[i].parts # <<>> /\ extract_body(parts[i]) # <<>>
    THEN extract_body(parts[i])
    ELSE extract_body_parts(parts, i + 1)

extract_body_children_first(payload) ==
    IF payload.parts # <<>> /\ extract_body_parts(payload.parts, 1) # <<>>
    THEN extract_body_parts(payload.parts, 1)
    ELSE IF payload.data # <<>> THEN decode(payload.data)
    ELSE <<>>

extract_body(payload) ==
    IF payload.data # <<>> THEN decode(payload.data)
    ELSE IF payload.parts # <<>> THEN extract_body_parts(payload.parts, 1)
    ELSE <<>>

\* lines 272-279: the descriptor appended for a part.
descriptor(part) ==
    [filename |-> part.filename, mime_type |-> part.mimeType,
     size |-> part.size, attachment_id |-> part.attachmentId]

RECURSIVE recurse(_)
RECURSIVE recurse_parts(_, _)

\* lines 280-282: recurse(p) for the parts from number i on.
recurse_parts(parts, i) ==
    IF i > Len(parts) THEN <<>>
    ELSE recurse(parts[i]) \o recurse_parts(parts, i + 1)

recurse_leaf_only(part) ==
    IF part.parts # <<>> THEN recurse_parts(part.parts, 1)
    ELSE IF part.filename # <<>> THEN <<descriptor(part)>>
    ELSE <<>>

\* lines 270-282: what recurse(part) appends to `attachments`.
recurse(part) ==
    (IF part.filename # <<>> THEN <<descriptor(part)>> ELSE <<>>)
    \o recurse_parts(part.parts, 1)

extract_attachment_info(payload) == recurse(payload)

-----------------------------------------------------------------------------
(* download_attachment: lines 288-310.                                     *)

DIGITS == <<"0","1","2","3","4","5","6","7","8","9">>

\* str(n) for n >= 0
RECURSIVE str(_)
str(n) ==
    IF n < 10 THEN <<DIGITS[n + 1]>>
    ELSE str(n \div 10) \o <<DIGITS[(n % 10) + 1]>>

\* Path(filename).suffix and .stem for a filename without "/": the name is
\* cut at its last "." unless that is its first or its last character.
last_dot(filename) ==
    LET dots == {i \in 1..Len(filename) : filename[i] = "."}
    IN IF dots = {} THEN 0 ELSE CHOOSE i \in dots : \A j \in dots : j <= i

suffix(filename) ==
    IF 1 < last_dot(filename) /\ last_dot(filename) < Len(filename)
    THEN Slice(filename, last_dot(filename), Len(filename))
    ELSE <<>>

stem(filename) ==
    IF 1 < last_dot(filename) /\ last_dot(filename) < Len(filename)
    THEN Slice(filename, 1, last_dot(filename) - 1)
    ELSE filename

\* line 306: f"{stem}_{counter}{suffix}"
numbered(filename, counter) ==
    stem(filename) \o <<"_">> \o str(counter) \o suffix(filename)

\* lines 303-307: the loop, entered with output_path already taken.
RECURSIVE next_free(_, _, _)
next_free(filename, counter, files) ==
    IF numbered(filename, counter) \notin DOMAIN files
    THEN numbered(filename, counter)
    ELSE next_free(filename, counter + 1, files)

output_path_unchecked(filename, files) == filename

\* lines 299-307: the path written, relative to output_dir, when the
\* directory holds `files`.
output_path(filename, files) ==
    IF filename \notin DOMAIN files THEN filename
    ELSE next_free(filename, 1, files)

\* lines 309-310: the directory after output_path.write_bytes(file_data).
write_bytes(files, path, file_data) ==
    [p \in DOMAIN files \cup {path} |->
        IF p = path THEN file_data ELSE files[p]]

NoDl ==
    [n |-> 0, filename |-> <<>>, path |-> <<>>, before |-> <<>>,
     prev_filename |-> <<>>, prev_path |-> <<>>]

\* The record of a call that returned: the directory before it, the path it
\* wrote and returned, and the same of the call before it.
downloaded(filename, files, last) ==
    [n |-> last.n + 1, filename |-> filename,
     path |-> output_path(filename, files), before |-> files,
     prev_filename |-> last.filename, prev_path |-> last.path]

\* A call of download_attachment; the bytes fetched are numbered by the call.
download_attachment(filename) ==
    /\ dl.n < MaxDownloads
    /\ dl' = downloaded(filename, out_files, dl)
    /\ out_files' = write_bytes(out_files, output_path(filename, out_files),
                                dl.n + 1)

\* lines 524-529: download_attachment for the first k of atts, in order.
RECURSIVE download_each(_, _, _, _)
download_each(atts, k, files, last) ==
    IF k = 0 \/ atts = <<>> THEN [files |-> files, dl |-> last]
    ELSE LET d == downloaded(Head(atts).filename, files, last)
         IN download_each(Tail(atts), k - 1,
                          write_bytes(files, d.path, last.n + 1), d)

has_attachment_id(att) == att.attachment_id # ""

\* lines 502-540: messages.get, then attachments.get and a file written for
\* each attachment that has an attachment id, until a call fails.
cmd_download(env, tree, fail_at) ==
    LET r == get_credentials(FALSE, env, token_file)
        atts == SelectSeq(extract_attachment_info(tree), has_attachment_id)
        after == remote(<<"messages.get">>
                        \o [i \in 1..Len(atts) |-> "attachments.get"],
                        fail_at)
        done == IF r.raised # "" \/ ~r.result.some THEN 0
                ELSE IF after.outcome = "ok" THEN Len(atts)
                ELSE IF Len(after.mail_calls) >= 2
                THEN Len(after.mail_calls) - 2
                ELSE 0
        w == download_each(atts, done, out_files, dl)
    IN /\ authenticated("download", NoArgs, r, after)
       /\ w.dl.n <= MaxDownloads
       /\ out_files' = w.files
       /\ dl' = w.dl

\* lines 202-242, once the message is fetched: the body when full_body is
\* set, and the attachment descriptors.
get_message_details(full_body) ==
    /\ ~details.fetched
    /\ details' = [fetched |-> TRUE, full_body |-> full_body,
                   body |-> IF full_body THEN extract_body(msg) ELSE <<>>,
                   attachments |-> extract_attachment_info(msg)]
    /\ UNCHANGED msg

-----------------------------------------------------------------------------
(* The part tree that messages().get(...).execute() returns (lines 208-215) *)
(* is put together part by part, in pre-order: each new part becomes the    *)
(* last part of a part on the path from the root to the last part.          *)

RECURSIVE parts_in(_)
RECURSIVE parts_in_all(_, _)
parts_in_all(parts, i) ==
    IF i > Len(parts) THEN 0
    ELSE parts_in(parts[i]) + parts_in_all(parts, i + 1)
parts_in(tree) == 1 + parts_in_all(tree.parts, 1)

RECURSIVE last_path_length(_)
last_path_length(tree) ==
    IF tree.parts = <<>> THEN 0
    ELSE 1 + last_path_length(tree.parts[Len(tree.parts)])

RECURSIVE with_part(_, _, _)
with_part(tree, depth, part) ==
    IF depth = 0 THEN [tree EXCEPT !.parts = Append(@, part)]
    ELSE [tree EXCEPT !.parts[Len(tree.parts)] =
                          with_part(tree.parts[Len(tree.parts)], depth - 1, part)]

B64_HI == <<"a","G","k","=">>
B64_E_ACUTE_FF == <<"w","6","n","_">>

FILE_A == <<"a",".","t","x","t">>
FILE_B == <<"b">>

\* Parts that differ in what extract_body reads.
BodyKinds ==
    {Part(m, d, <<>>, "", 0) : m \in {"text/plain", "text/html"},
                               d \in {<<>>, B64_HI, B64_E_ACUTE_FF}}

\* Parts that differ in what extract_attachment_info reads.
AttachmentKinds ==
    { Part("multipart/mixed", <<>>, <<>>, "", 0),
      Part("text/plain", <<>>, FILE_A, "att-1", 5),
      Part("text/plain", <<>>, FILE_A, "", 0),
      Part("image/png", <<>>, FILE_B, "att-2", 7) }

\* The kinds of part a message made of parts like `tree` is given.
kinds_like(tree) ==
    IF [tree EXCEPT !.parts = <<>>] \in BodyKinds THEN BodyKinds
    ELSE AttachmentKinds

\* The message that the service returns has one part more.
message_has_part(part, depth) ==
    /\ ~details.fetched
    /\ parts_in(msg) < MaxParts
    /\ msg' = with_part(msg, depth, part)
    /\ UNCHANGED details

-----------------------------------------------------------------------------
(* get_message_for_reply: lines 639-683.                                   *)

\* A header of the fetched message: absent from the `headers` dict, or
\* present with a value.
NoHeader == [present |-> FALSE, value |-> <<>>]
Header(value) == [present |-> TRUE, value |-> value]

\* headers.get(name, default)
headers_get(header, default) ==
    IF header.present THEN header.value ELSE default

UPPERCASE ==
    <<"A","B","C","D","E","F","G","H","I","J","K","L","M",
      "N","O","P","Q","R","S","T","U","V","W","X","Y","Z">>
LOWERCASE ==
    <<"a","b","c","d","e","f","g","h","i","j","k","l","m",
      "n","o","p","q","r","s","t","u","v","w","x","y","z">>

\* str.lower() on ASCII text
lower(s) ==
    [i \in 1..Len(s) |->
        IF s[i] \in Upper
        THEN LOWERCASE[CHOOSE k \in 1..26 : UPPERCASE[k] = s[i]]
        ELSE s[i]]

\* s.startswith(prefix)
startswith(s, prefix) ==
    Len(s) >= Len(prefix) /\ SubSeq(s, 1, Len(prefix)) = prefix

NO_SUBJECT == <<"(","n","o"," ","s","u","b","j","e","c","t",")">>
RE_COLON == <<"r","e",":">>
RE_PREFIX == <<"R","e",":"," ">>

\* lines 659-664
reply_subject_always_prefixed(original_subject) ==
    RE_PREFIX \o original_subject

reply_subject(original_subject) ==
    IF ~startswith(lower(original_subject), RE_COLON)
    THEN RE_PREFIX \o original_subject
    ELSE original_subject

\* lines 666-675
reply_references_keeps_prior(message_id, existing_refs) ==
    IF existing_refs # <<>> /\ message_id # <<>>
    THEN existing_refs \o <<" ">> \o message_id
    ELSE IF message_id # <<>> THEN message_id
    ELSE existing_refs

reply_references(message_id, existing_refs) ==
    IF existing_refs # <<>> /\ message_id # <<>>
    THEN existing_refs \o <<" ">> \o message_id
    ELSE IF message_id # <<>> THEN message_id
    ELSE <<>>

NoContext ==
    [derived |-> FALSE, to |-> <<>>, subject |-> <<>>, thread_id |-> "",
     message_id |-> <<>>, references |-> <<>>, replies |-> 0]

\* lines 644-683: the dict returned for the message `original`.
get_message_for_reply ==
    /\ ~context.derived
    /\ context' =
          [derived |-> TRUE,
           to |-> reply_to(headers_get(original.From, <<>>)),
           subject |-> reply_subject(headers_get(original.Subject, NO_SUBJECT)),
           thread_id |-> original.threadId,
           message_id |-> headers_get(original.MessageID, <<>>),
           references |->
               reply_references(headers_get(original.MessageID, <<>>),
                                headers_get(original.References, <<>>)),
           replies |-> context.replies]
    /\ UNCHANGED original

MID_REPLY == <<"<","2",">">>

\* lines 611-634 for a reply built from `ctx`: the headers and the thread of
\* the message that messages.send stores, with the Message-ID the service
\* gives it.
create_message(ctx, from_addr) ==
    [From |-> Header(from_addr),
     Subject |-> Header(ctx.subject),
     MessageID |-> Header(MID_REPLY),
     References |-> IF ctx.references # <<>> THEN Header(ctx.references)
                    ELSE NoHeader,
     threadId |-> IF ctx.thread_id # "None" THEN ctx.thread_id ELSE "t-new"]

\* The reply that was sent is itself replied to: it is the next message
\* that get_message_for_reply fetches.
reply_is_replied_to ==
    /\ context.derived
    /\ context.replies < MaxReplies
    /\ original' = create_message(context, <<"m","e">>)
    /\ context' = [NoContext EXCEPT !.replies = context.replies + 1]

\* TOKEN_FILE is left with content that is no pickled handle, as when the
\* write at lines 157-158 is cut short.
token_file_damaged ==
    /\ token_file.some
    /\ ~token_file.malformed
    /\ token_file' = Malformed
    /\ UNCHANGED <<credentials_dir, client_secrets_file, scope_file, issued,
                   scope_change, cmd, args, outcome, err, acq, mail_calls>>

-----------------------------------------------------------------------------
(* Initial states.                                                         *)

\* A machine on which the tool has never run.
CredInit ==
    /\ credentials_dir = FALSE
    /\ client_secrets_file = FALSE
    /\ scope_file = ABSENT
    /\ token_file = None
    /\ issued = 0
    /\ scope_change = NoChange
    /\ cmd = "none"
    /\ args = NoArgs
    /\ outcome = "none"
    /\ err = ""
    /\ acq = NoAcq
    /\ mail_calls = <<>>

NoDetails ==
    [fetched |-> FALSE, full_body |-> FALSE, body |-> <<>>,
     attachments |-> <<>>]

CodecIdle == msg = Part("text/plain", <<>>, <<>>, "", 0) /\ details = NoDetails

DlIdle == out_files = <<>> /\ dl = NoDl

NoOriginal ==
    [From |-> NoHeader, Subject |-> NoHeader, MessageID |-> NoHeader,
     References |-> NoHeader, threadId |-> "None"]

ReplyIdle == original = NoOriginal /\ context = NoContext

-----------------------------------------------------------------------------
(* The credential lifecycle under every command.                           *)

SUBJECT == <<"x">>
BODY == <<"x">>
MESSAGE_ID == <<"x">>

DownloadPayloads ==
    { Part("text/plain", B64_HI, <<>>, "", 0),
      [Part("multipart/mixed", <<>>, <<>>, "", 0) EXCEPT
          !.parts = << Part("text/plain", B64_HI, <<>>, "", 0),
                       Part("text/plain", <<>>, FILE_A, "att-1", 5) >>] }

InstallClientSecrets ==
    install_client_secrets /\ UNCHANGED <<codecVars, dlVars, replyVars>>

TokenExpires == token_expires /\ UNCHANGED <<codecVars, dlVars, replyVars>>

TokenFileDamaged ==
    token_file_damaged /\ UNCHANGED <<codecVars, dlVars, replyVars>>

Setup ==
    /\ \E env \in Quiet : cmd_setup(env)
    /\ UNCHANGED <<codecVars, dlVars, replyVars>>

Auth ==
    /\ \E env \in Envs, manual \in BOOLEAN :
          (~manual => env \in Quiet) /\ cmd_auth(manual, env)
    /\ UNCHANGED <<codecVars, dlVars, replyVars>>

Scope ==
    /\ \E scope \in ScopeArgs : cmd_scope(scope)
    /\ UNCHANGED <<codecVars, dlVars, replyVars>>

Search ==
    /\ \E env \in Quiet, fail_at \in 0..1 : cmd_search(env, 1, fail_at)
    /\ UNCHANGED <<codecVars, dlVars, replyVars>>

Download ==
    /\ \E env \in Quiet, tree \in DownloadPayloads, fail_at \in 0..2 :
          cmd_download(env, tree, fail_at)
    /\ UNCHANGED <<codecVars, replyVars>>

Labels ==
    /\ \E env \in Quiet, fail_at \in 0..1 : cmd_labels(env, fail_at)
    /\ UNCHANGED <<codecVars, dlVars, replyVars>>

Send ==
    /\ \E env \in Quiet, to \in {ADDR_OK, ADDR_NO_AT}, fail_at \in 0..1 :
          cmd_send(env, to, <<>>, <<>>, SUBJECT, BODY, fail_at)
    /\ UNCHANGED <<codecVars, dlVars, replyVars>>

Draft ==
    /\ \E env \in Quiet, to \in {ADDR_OK, ADDR_NO_AT}, fail_at \in 0..1 :
          cmd_draft(env, to, <<>>, <<>>, SUBJECT, BODY, fail_at)
    /\ UNCHANGED <<codecVars, dlVars, replyVars>>

Reply ==
    /\ \E env \in Quiet, fail_at \in 0..1 :
          cmd_reply(env, MESSAGE_ID, BODY, ADDR_NO_AT, fail_at)
    /\ UNCHANGED <<codecVars, dlVars, replyVars>>

InitCred == CredInit /\ CodecIdle /\ DlIdle /\ ReplyIdle

NextCred ==
    \/ InstallClientSecrets
    \/ TokenExpires
    \/ TokenFileDamaged
    \/ Setup
    \/ Auth
    \/ Scope
    \/ Search
    \/ Download
    \/ Labels
    \/ Send
    \/ Draft
    \/ Reply

SpecCred == InitCred /\ [][NextCred]_vars

-----------------------------------------------------------------------------
(* send, draft and reply under every argument.                             *)

\* The environment in which the local-server flow succeeds.
GRANTED ==
    [exchange_ok |-> TRUE, grants_refresh |-> TRUE, eof |-> FALSE,
     url |-> URL_CODE]

Authorize ==
    /\ \E env \in Quiet : cmd_auth(FALSE, env)
    /\ UNCHANGED <<codecVars, dlVars, replyVars>>

SendAny ==
    /\ \E to \in ToArgs, cc \in CcArgs, bcc \in BccArgs,
          subject \in TextArgs, fail_at \in 0..1 :
          cmd_send(GRANTED, to, cc, bcc, subject, BODY, fail_at)
    /\ UNCHANGED <<codecVars, dlVars, replyVars>>

DraftAny ==
    /\ \E to \in ToArgs, cc \in CcArgs, bcc \in BccArgs,
          subject \in TextArgs, fail_at \in 0..1 :
          cmd_draft(GRANTED, to, cc, bcc, subject, BODY, fail_at)
    /\ UNCHANGED <<codecVars, dlVars, replyVars>>

ReplyAny ==
    /\ \E message_id \in TextArgs, body \in TextArgs,
          original_from \in FromHeaders, fail_at \in 0..2 :
          cmd_reply(GRANTED, message_id, body, original_from, fail_at)
    /\ UNCHANGED <<codecVars, dlVars, replyVars>>

NextMail ==
    \/ InstallClientSecrets
    \/ Authorize
    \/ SendAny
    \/ DraftAny
    \/ ReplyAny

SpecMail == InitCred /\ [][NextMail]_vars

-----------------------------------------------------------------------------
(* The codec on every part tree.                                           *)

InitCodec ==
    /\ CredInit
    /\ DlIdle
    /\ msg \in BodyKinds \cup AttachmentKinds
    /\ details = NoDetails
    /\ ReplyIdle

MessageHasPart ==
    /\ \E part \in kinds_like(msg), depth \in 0..last_path_length(msg) :
          message_has_part(part, depth)
    /\ UNCHANGED <<credVars, dlVars, replyVars>>

GetMessageDetails ==
    /\ \E full_body \in BOOLEAN : get_message_details(full_body)
    /\ UNCHANGED <<credVars, dlVars, replyVars>>

NextCodec == MessageHasPart \/ GetMessageDetails

SpecCodec == InitCodec /\ [][NextCodec]_vars

-----------------------------------------------------------------------------
(* download_attachment on an output directory that may hold files.         *)

FILE_A_1 == <<"a","_","1",".","t","x","t">>
FILE_A_2 == <<"a","_","2",".","t","x","t">>
FILE_B_1 == <<"b","_","1">>
FILE_RC == <<".","r","c">>

\* Names of attachments, and of files already in the output directory.
Filenames == {FILE_A, FILE_A_1, FILE_B, FILE_RC}
Existing == {FILE_A, FILE_A_1, FILE_A_2, FILE_B_1}

InitDownload ==
    /\ CredInit
    /\ CodecIdle
    /\ dl = NoDl
    /\ out_files \in {[p \in S |-> 0] : S \in SUBSET Existing}
    /\ ReplyIdle

DownloadAttachment ==
    /\ \E filename \in Filenames : download_attachment(filename)
    /\ UNCHANGED <<credVars, codecVars, replyVars>>

NextDownload == DownloadAttachment

SpecDownload == InitDownload /\ [][NextDownload]_vars

-----------------------------------------------------------------------------
(* get_message_for_reply on every original message.                        *)

MID_1 == <<"<","1",">">>
REFS_0 == <<"<","0",">">>

Subjects ==
    { <<>>, <<"Q">>, <<"R">>, <<"R","e">>, <<"R","e",":"," ","x">>,
      <<"R","E",":"," ","x">>, <<"r","e",":","x">>, <<"r","E",":">>,
      <<" ","R","e",":"," ","x">>, <<"R","e","p","l","y">> }

Originals ==
    [From : {NoHeader, Header(<<"A"," ","<">> \o ADDR_OK \o <<">">>)},
     Subject : {NoHeader} \cup {Header(x) : x \in Subjects},
     MessageID : {NoHeader, Header(<<>>), Header(MID_1)},
     References : {NoHeader, Header(<<>>), Header(REFS_0)},
     threadId : {"None", "t1"}]

InitReply ==
    /\ CredInit
    /\ CodecIdle
    /\ DlIdle
    /\ original \in Originals
    /\ context = NoContext

GetMessageForReply ==
    get_message_for_reply /\ UNCHANGED <<credVars, codecVars, dlVars>>

ReplyIsRepliedTo ==
    reply_is_replied_to /\ UNCHANGED <<credVars, codecVars, dlVars>>

NextReply == GetMessageForReply \/ ReplyIsRepliedTo

SpecReply == InitReply /\ [][NextReply]_vars

-----------------------------------------------------------------------------
(* Properties of the credential lifecycle.                                 *)

\* C1: the first run of get_credentials after a call set_scope(s) with a
\* valid s, whatever the token file held at that call, loads no persisted
\* handle and performs no refresh; with the client secrets present it takes
\* the full-authorization flow, and when set_scope returned, the flow is
\* requested with the permission set of s.  A handle it returns was issued
\* by that flow.
AcquireAfterSetScopeIsFresh ==
    (acq.ran /\ acq.after.scope # "") =>
        /\ acq.path \in {"full", "notconfigured"}
        /\ acq.loaded = None
        /\ acq.configured => acq.path = "full"
        /\ (acq.configured /\ acq.after.returned) =>
               acq.requested = SCOPES_MAP[acq.after.scope]
        /\ acq.result.some =>
               /\ acq.result.id = acq.issued
               /\ acq.result.scopes = acq.requested

\* A full authorization for "readonly" right after set_scope("readonly")
\* deleted an expired token that held a refresh credential.
AcquireAfterSetScopeReached ==
    /\ acq.ran
    /\ acq.after = [scope |-> "readonly", returned |-> TRUE,
                    token |-> "refreshable"]
    /\ acq.path = "full"
    /\ acq.result.some
    /\ acq.requested = {READONLY_URL}

\* C2: a step of cmd_scope that calls set_scope with a value that is not a
\* key of SCOPES_MAP fails with ValueError and leaves the scope file, the
\* token file and the directory as they were.
InvalidScopeChangesNothing ==
    [][\A scope \in ScopeArgs :
          (scope # "" /\ scope \notin DOMAIN SCOPES_MAP /\ cmd_scope(scope))
          => /\ outcome' = "exit1"
             /\ err' = "ValueError"
             /\ scope_file' = scope_file
             /\ token_file' = token_file
             /\ credentials_dir' = credentials_dir]_vars

\* set_scope("admin") was rejected with a token and a scope file in place.
InvalidScopeRejectedReached ==
    /\ cmd = "scope"
    /\ args.scope = "admin"
    /\ err = "ValueError"
    /\ token_file.some
    /\ scope_file = "readonly"

\* Some entry of a non-empty comma-separated list fails validate_email.
has_invalid_entry(list) ==
    /\ list # <<>>
    /\ \E i \in 1..Len(split(list, ",")) : ~validate_email(split(list, ",")[i])

ManualInputFailureIsAuthFailed ==
    ( /\ acq.ran /\ acq.manual /\ acq.asked
      /\ \/ acq.eof
         \/ strip(acq.url) = <<>>
         \/ ~contains(strip(acq.url), CODE_MARKER) )
    => acq.raised = "" /\ ~acq.result.some /\ ~acq.token_file.some

\* C5: a step that removes the token file is a step of cmd_scope or of
\* cmd_auth.
OnlyScopeAndAuthDeleteToken ==
    [][(token_file.some /\ ~token_file'.some) => (Scope \/ Auth)]_vars

\* send found a token, refreshed it and left the refreshed handle in the
\* token file.
TokenOverwrittenReached ==
    /\ cmd = "send"
    /\ acq.loaded.some
    /\ acq.result.some
    /\ acq.result # acq.loaded
    /\ token_file = acq.result

\* C6: when get_credentials returns a handle the token file holds that
\* handle: a handle loaded as valid is returned as loaded, and a handle from
\* a refresh or a full authorization is newly issued and written.
ReturnedHandleIsPersisted ==
    (acq.ran /\ acq.result.some) =>
        /\ acq.token_file = acq.result
        /\ acq.path = "loaded" => acq.result = acq.loaded
        /\ acq.path \in {"refresh", "full"} =>
               acq.result.id = acq.issued /\ acq.result # acq.loaded

\* A refresh overwrote the expired handle with the refreshed one.
RefreshedHandlePersistedReached ==
    /\ acq.ran
    /\ acq.path = "refresh"
    /\ acq.loaded.some
    /\ acq.result.some
    /\ acq.token_file = acq.result

\* C7 as stated: set_scope with a valid scope succeeds and persists it from
\* every state, the directory being created on demand.
SetScopeAlwaysPersists ==
    (cmd = "scope" /\ args.scope \in DOMAIN SCOPES_MAP) =>
        outcome = "ok" /\ scope_file = args.scope

-----------------------------------------------------------------------------
(* Properties of download_attachment.                                      *)

\* The call that returned last wrote a path that did not exist when it was
\* called: the filename itself when that was free, otherwise the numbered
\* name with the least free number; every file that existed is intact and
\* the new file holds the bytes of this call.
writes_least_free_path ==
    /\ dl.path \notin DOMAIN dl.before
    /\ dl.filename \notin DOMAIN dl.before => dl.path = dl.filename
    /\ dl.filename \in DOMAIN dl.before =>
           \E k \in 1..(Cardinality(DOMAIN dl.before) + 1) :
               /\ dl.path = stem(dl.filename) \o <<"_">> \o str(k)
                              \o suffix(dl.filename)
               /\ \A j \in 1..(k - 1) :
                      numbered(dl.filename, j) \in DOMAIN dl.before
    /\ (dl.filename = FILE_A /\ FILE_A \in DOMAIN dl.before
          /\ FILE_A_1 \notin DOMAIN dl.before) => dl.path = FILE_A_1
    /\ (dl.filename = FILE_A /\ {FILE_A, FILE_A_1} \subseteq DOMAIN dl.before
          /\ FILE_A_2 \notin DOMAIN dl.before) => dl.path = FILE_A_2
    /\ (dl.filename = FILE_B /\ FILE_B \in DOMAIN dl.before
          /\ FILE_B_1 \notin DOMAIN dl.before) => dl.path = FILE_B_1
    /\ (dl.filename = FILE_RC /\ FILE_RC \in DOMAIN dl.before
          /\ <<".","r","c","_","1">> \notin DOMAIN dl.before) =>
           dl.path = <<".","r","c","_","1">>
    /\ \A p \in DOMAIN dl.before :
           p \in DOMAIN out_files /\ out_files[p] = dl.before[p]
    /\ out_files[dl.path] = dl.n

\* Two successive calls with the same filename returned distinct paths and
\* the first file still holds the bytes of the first call.
second_call_spares_first ==
    (dl.n >= 2 /\ dl.prev_filename = dl.filename) =>
        /\ dl.path # dl.prev_path
        /\ out_files[dl.prev_path] = dl.n - 1

\* C8 as stated: download_attachment writes the least free path, two
\* successive calls with one filename spare the first file, and the second
\* of them returns the name numbered 1.
SecondDownloadIsNumberedOne ==
    dl.n >= 1 =>
        /\ writes_least_free_path
        /\ second_call_spares_first
        /\ (dl.n >= 2 /\ dl.prev_filename = dl.filename) =>
               dl.path = numbered(dl.filename, 1)

\* C8 as amended: download_attachment writes the least free path, two
\* successive calls with one filename spare the first file, and the second
\* of them returns the name numbered 1 when the first returned the filename
\* itself and the name numbered 1 was free.
DownloadNeverOverwrites ==
    dl.n >= 1 =>
        /\ writes_least_free_path
        /\ second_call_spares_first
        /\ ( /\ dl.n >= 2 /\ dl.prev_filename = dl.filename
             /\ dl.prev_path = dl.filename
             /\ numbered(dl.filename, 1) \notin DOMAIN dl.before ) =>
               dl.path = numbered(dl.filename, 1)

\* a.txt was downloaded twice: a.txt, then a_1.txt, the first left intact.
SecondDownloadReached ==
    /\ dl.n >= 2
    /\ dl.filename = FILE_A /\ dl.prev_filename = FILE_A
    /\ dl.prev_path = FILE_A
    /\ dl.path = FILE_A_1
    /\ out_files[FILE_A] = dl.n - 1
    /\ out_files[FILE_A_1] = dl.n

-----------------------------------------------------------------------------
(* Properties of the message codec.                                        *)

\* C9: extract_body on a node with a non-empty inline body returns the
\* decoding of that body, whatever parts the node has.
OwnBodyTakesPrecedence ==
    (details.fetched /\ details.full_body /\ msg.data # <<>>) =>
        /\ details.body = decode(msg.data)
        /\ msg.data = B64_HI => details.body = <<104, 105>>
        /\ msg.data = B64_E_ACUTE_FF => details.body = <<233, 65533>>

\* The node's body decodes to "hi" and was returned although a text/plain
\* part of the node holds another body.
OwnBodyOverChildReached ==
    /\ details.fetched /\ details.full_body
    /\ msg.data = B64_HI
    /\ \E i \in 1..Len(msg.parts) :
           /\ msg.parts[i].mimeType = "text/plain"
           /\ msg.parts[i].data = B64_E_ACUTE_FF
    /\ details.body = <<104, 105>>

\* The nodes of a tree, each named by the part numbers on the way to it.
RECURSIVE node_paths(_)
node_paths(tree) ==
    {<<>>} \cup UNION { {<<i>> \o p : p \in node_paths(tree.parts[i])} :
                        i \in 1..Len(tree.parts) }

RECURSIVE node_at(_, _)
node_at(tree, p) ==
    IF p = <<>> THEN tree ELSE node_at(tree.parts[Head(p)], Tail(p))

\* Depth-first pre-order: a node before its descendants, and the subtree of
\* an earlier part before the subtree of a later one.
comes_before(p, q) ==
    /\ p # q
    /\ \/ Len(p) < Len(q) /\ SubSeq(q, 1, Len(p)) = p
       \/ \E i \in 1..Len(p) :
              /\ i <= Len(q)
              /\ SubSeq(p, 1, i - 1) = SubSeq(q, 1, i - 1)
              /\ p[i] < q[i]

named_nodes(tree) ==
    {p \in node_paths(tree) : node_at(tree, p).filename # <<>>}

\* C10: extract_attachment_info returns one descriptor for each node with a
\* non-empty filename and no other, in depth-first pre-order.
AttachmentsInPreOrder ==
    details.fetched =>
        /\ Len(details.attachments) = Cardinality(named_nodes(msg))
        /\ \A p \in named_nodes(msg) :
               LET rank == 1 + Cardinality({q \in named_nodes(msg) :
                                               comes_before(q, p)})
                   part == node_at(msg, p)
               IN details.attachments[rank] =
                      [filename |-> part.filename,
                       mime_type |-> part.mimeType,
                       size |-> part.size,
                       attachment_id |-> part.attachmentId]

\* A named node with a named part that has a named part of its own, and a
\* later named part: four descriptors, parents before their parts.
NestedAttachmentsReached ==
    /\ details.fetched
    /\ msg.filename = FILE_A
    /\ Len(msg.parts) = 2
    /\ msg.parts[1].filename = FILE_B
    /\ Len(msg.parts[1].parts) = 1
    /\ msg.parts[1].parts[1].filename = FILE_A
    /\ msg.parts[1].parts[1].attachmentId = ""
    /\ msg.parts[2].filename = FILE_B
    /\ Len(details.attachments) = 4
    /\ details.attachments[2].filename = FILE_B
    /\ details.attachments[3].attachment_id = ""

-----------------------------------------------------------------------------
(* Properties of get_message_for_reply.                                    *)

\* C11: the References chain of a reply is the prior References value, one
\* space and the original Message-ID when both are non-empty, the
\* Message-ID alone when only it is non-empty, and empty otherwise; the
\* Message-ID and the thread identifier are returned as fetched.
ReferencesChain ==
    context.derived =>
        LET m == IF original.MessageID.present
                 THEN original.MessageID.value ELSE <<>>
            r == IF original.References.present
                 THEN original.References.value ELSE <<>>
        IN /\ (r # <<>> /\ m # <<>>) => context.references = r \o <<" ">> \o m
           /\ (r = <<>> /\ m # <<>>) => context.references = m
           /\ m = <<>> => context.references = <<>>
           /\ (r = REFS_0 /\ m = MID_1) =>
                  context.references = <<"<","0",">"," ","<","1",">">>
           /\ context.message_id = m
           /\ context.thread_id = original.threadId

\* The reply to a reply: the chain of the first reply, a space, and the
\* Message-ID of that reply.
ReferencesChainReached ==
    /\ context.derived
    /\ context.replies = 1
    /\ original.MessageID = Header(MID_REPLY)
    /\ context.references =
           <<"<","0",">"," ","<","1",">"," ","<","2",">">>
    /\ context.message_id = MID_REPLY
    /\ context.thread_id = "t1"

\* The subject begins with "Re:" in some letter case.
begins_with_re(subject) ==
    /\ Len(subject) >= 3
    /\ subject[1] \in {"R", "r"}
    /\ subject[2] \in {"E", "e"}
    /\ subject[3] = ":"

\* C12: a subject that begins with "Re:" in any letter case is kept, any
\* other subject S becomes "Re: " + S, and the subject derived from a
\* derived subject is that subject.
ReplyPrefixOnce ==
    context.derived =>
        LET S == IF original.Subject.present THEN original.Subject.value
                 ELSE NO_SUBJECT
        IN /\ begins_with_re(S) => context.subject = S
           /\ ~begins_with_re(S) =>
                  context.subject = <<"R","e",":"," ">> \o S
           /\ S = <<"Q">> => context.subject = <<"R","e",":"," ","Q">>
           /\ S = <<"r","E",":">> => context.subject = <<"r","E",":">>
           /\ context.replies >= 1 => context.subject = S

\* "Q" became "Re: Q" in the first reply and stayed "Re: Q" in the reply to
\* that reply.
ReplyPrefixOnceReached ==
    /\ context.derived
    /\ context.replies = 1
    /\ original.Subject = Header(<<"R","e",":"," ","Q">>)
    /\ context.subject = <<"R","e",":"," ","Q">>

-----------------------------------------------------------------------------
(* Properties of get_credentials on a token it cannot use.                 *)

\* C13 as stated: a run of get_credentials that loads an expired handle with
\* a refresh credential never ends in the refresh error: when the refresh
\* exchange fails the run goes on to the client-secrets check and the full
\* authorization.
RefreshFailureFallsThrough ==
    (acq.ran /\ token_state(acq.loaded) = "refreshable") =>
        /\ acq.raised # "RefreshError"
        /\ acq.path = "refresh" => acq.result.some

\* C14 as stated: a run of get_credentials on a token file that cannot be
\* deserialized does not raise and goes on as without a token file, to the
\* client-secrets check and the full authorization.
MalformedTokenIsNoToken ==
    (acq.ran /\ acq.token_file.malformed) =>
        /\ acq.raised = ""
        /\ acq.path \in {"notconfigured", "full"}

\* C17: in every state reached from a machine without a token by commands
\* run one at a time, a token file that holds a handle holds one granted
\* with the permission set of the scope that the scope file names ("modify"
\* without a scope file): the handle came from a full authorization
\* requested with that set, or from refreshing such a handle.
TokenMatchesScope ==
    (token_file.some /\ ~token_file.malformed) =>
        /\ token_file.scopes =
               CASE scope_file = ABSENT -> {READONLY_URL, MODIFY_URL}
                 [] scope_file = "readonly" -> {READONLY_URL}
                 [] scope_file = "modify" -> {READONLY_URL, MODIFY_URL}
                 [] scope_file = "full" -> {FULL_URL}
        /\ token_file.id \in 1..issued

\* After a change of scope to "readonly" a token for it was authorized, and
\* a later run refreshed that token.
TokenMatchesScopeReached ==
    /\ scope_file = "readonly"
    /\ acq.ran /\ acq.path = "refresh"
    /\ acq.loaded.scopes = {READONLY_URL}
    /\ token_file = acq.result
    /\ token_file.scopes = {READONLY_URL}
    /\ token_file.id >= 3

-----------------------------------------------------------------------------
(* Properties of extract_body on a node without a body of its own.         *)

\* The direct children that are text/plain parts with a body.
plain_children(tree) ==
    {i \in 1..Len(tree.parts) :
        /\ tree.parts[i].mimeType = "text/plain"
        /\ tree.parts[i].data # <<>>}

\* C15 as stated: for a node without a body of its own, when some direct
\* child is a text/plain part with a body, extract_body returns the body of
\* the first such child, whatever the subtrees of earlier siblings hold.
DirectPlainChildFirst ==
    ( /\ details.fetched /\ details.full_body
      /\ msg.data = <<>>
      /\ plain_children(msg) # {} )
    => LET first == CHOOSE i \in plain_children(msg) :
                        \A j \in plain_children(msg) : i <= j
       IN details.body = decode(msg.parts[first].data)

\* C16 as stated: extract_body returns the empty string only when no node
\* of the part tree carries a non-empty body.
EmptyOnlyWithoutAnyBody ==
    (details.fetched /\ details.full_body /\ details.body = <<>>) =>
        \A p \in node_paths(msg) : node_at(msg, p).data = <<>>

=============================================================================
